---- MODULE Spec2Model ----
(***************************************************************************)
(* Model of the Zylch thin CLI client: the token codec of                  *)
(* src/zylch_cli/config.py and the interactive loop of                     *)
(* src/zylch_cli/cli.py (ZylchCLI.chat and the handlers it dispatches to). *)
(* Strings that the code inspects character by character (input lines,     *)
(* bearer tokens) are sequences of one-character strings.                  *)
(***************************************************************************)
EXTENDS Integers, Sequences, FiniteSets, TLC

\* ------------------------------------------------------------------------
\* Bounds
\* ------------------------------------------------------------------------

\* Largest value of the local clock int(time.time()) that is explored.
MaxNow == 2

\* ------------------------------------------------------------------------
\* Python values
\* ------------------------------------------------------------------------

None == [t |-> "None"]
PyInt(i) == [t |-> "int", v |-> i]
PyBool(b) == [t |-> "bool", v |-> b]
PyStr(s) == [t |-> "str", v |-> s]
PyList == [t |-> "list"]
PyDict(m) == [t |-> "dict", members |-> m]

\* ------------------------------------------------------------------------
\* str methods used by the code
\* ------------------------------------------------------------------------

UPPER == <<"A","B","C","D","E","F","G","H","I","J","K","L","M","N","O","P","Q","R","S","T","U","V","W","X","Y","Z">>
LOWER == <<"a","b","c","d","e","f","g","h","i","j","k","l","m","n","o","p","q","r","s","t","u","v","w","x","y","z">>
\* strip() that knows the blank only
WHITESPACE_blank_only == {" "}
WHITESPACE == {" ", "\t"}

LowerChar(c) ==
    IF \E i \in 1..26 : UPPER[i] = c
    THEN LOWER[CHOOSE i \in 1..26 : UPPER[i] = c]
    ELSE c

\* str.lower()
StrLower(s) == [i \in 1..Len(s) |-> LowerChar(s[i])]

\* str.strip(): drop leading and trailing whitespace
StrStrip(s) ==
    LET keep == {i \in 1..Len(s) : s[i] \notin WHITESPACE}
    IN IF keep = {} THEN <<>>
       ELSE LET lo == CHOOSE i \in keep : \A j \in keep : i <= j
                hi == CHOOSE i \in keep : \A j \in keep : j <= i
            IN SubSeq(s, lo, hi)

\* str.startswith(prefix)
StrStartsWith(s, p) == Len(s) >= Len(p) /\ SubSeq(s, 1, Len(p)) = p

\* str.split(sep) for a one-character separator: every occurrence splits
RECURSIVE StrSplit(_, _)
StrSplit(s, sep) ==
    IF \A i \in 1..Len(s) : s[i] # sep THEN <<s>>
    ELSE LET k == CHOOSE i \in 1..Len(s) :
                      s[i] = sep /\ \A j \in 1..(i - 1) : s[j] # sep
         IN <<SubSeq(s, 1, k - 1)>> \o StrSplit(SubSeq(s, k + 1, Len(s)), sep)

\* str.split(sep, 1)[1]: what follows the first separator
StrAfterFirst(s, sep) ==
    LET k == CHOOSE i \in 1..Len(s) :
                 s[i] = sep /\ \A j \in 1..(i - 1) : s[j] # sep
    IN SubSeq(s, k + 1, Len(s))

\* ------------------------------------------------------------------------
\* base64.urlsafe_b64decode
\* ------------------------------------------------------------------------

B64ALPHABET == <<"A","B","C","D","E","F","G","H","I","J","K","L","M","N","O","P","Q","R","S","T","U","V","W","X","Y","Z","a","b","c","d","e","f","g","h","i","j","k","l","m","n","o","p","q","r","s","t","u","v","w","x","y","z","0","1","2","3","4","5","6","7","8","9","+","/">>

\* the url-safe alphabet writes - for + and _ for /
UrlsafeTranslate(c) == IF c = "-" THEN "+" ELSE IF c = "_" THEN "/" ELSE c

InB64(c) == \E i \in 1..64 : B64ALPHABET[i] = c
B64Value(c) == (CHOOSE i \in 1..64 : B64ALPHABET[i] = c) - 1

BinasciiError == [ok |-> FALSE, bytes |-> <<>>]

\* The non-strict decoder: characters outside the alphabet are skipped, =
\* ends the data once the current quad is complete, and data that stops in
\* the middle of a quad is an error.
RECURSIVE A2bBase64(_, _, _, _, _, _)
A2bBase64(s, i, quad_pos, pads, leftchar, out) ==
    IF i > Len(s)
    THEN IF quad_pos # 0 THEN BinasciiError ELSE [ok |-> TRUE, bytes |-> out]
    ELSE LET c == UrlsafeTranslate(s[i]) IN
         IF c = "="
         THEN IF quad_pos >= 2 /\ quad_pos + pads + 1 >= 4
              THEN [ok |-> TRUE, bytes |-> out]
              ELSE A2bBase64(s, i + 1, quad_pos, pads + 1, leftchar, out)
         ELSE IF ~InB64(c)
         THEN A2bBase64(s, i + 1, quad_pos, pads, leftchar, out)
         ELSE LET v == B64Value(c) IN
              CASE quad_pos = 0 ->
                     A2bBase64(s, i + 1, 1, 0, v, out)
                [] quad_pos = 1 ->
                     A2bBase64(s, i + 1, 2, 0, v % 16,
                               Append(out, leftchar * 4 + v \div 16))
                [] quad_pos = 2 ->
                     A2bBase64(s, i + 1, 3, 0, v % 4,
                               Append(out, leftchar * 16 + v \div 4))
                [] OTHER ->
                     A2bBase64(s, i + 1, 0, 0, 0,
                               Append(out, leftchar * 64 + v))

UrlsafeB64Decode(s) == A2bBase64(s, 1, 0, 0, 0, <<>>)

\* ------------------------------------------------------------------------
\* json.loads, for documents of objects, arrays, strings without escapes,
\* integers, true, false and null
\* ------------------------------------------------------------------------

ASCII == <<" ","!","\"","#","$","%","&","'","(",")","*","+",",","-",".","/","0","1","2","3","4","5","6","7","8","9",":",";","<","=",">","?","@","A","B","C","D","E","F","G","H","I","J","K","L","M","N","O","P","Q","R","S","T","U","V","W","X","Y","Z","[","\\","]","^","_","GRAVE","a","b","c","d","e","f","g","h","i","j","k","l","m","n","o","p","q","r","s","t","u","v","w","x","y","z","{","|","}","~">>

\* the character of a decoded byte; anything outside printable ASCII is
\* kept as a character no JSON token accepts (the grave accent is spelled
\* out, the lexer does not take it inside a string)
Chr(b) == IF b >= 32 /\ b <= 126 THEN ASCII[b - 31] ELSE "\n"

DIGITS == <<"0","1","2","3","4","5","6","7","8","9">>
IsDigit(c) == \E i \in 1..10 : DIGITS[i] = c
DigitValue(c) == (CHOOSE i \in 1..10 : DIGITS[i] = c) - 1

JsonError == [ok |-> FALSE, val |-> None, pos |-> 0]
JsonOk(v, p) == [ok |-> TRUE, val |-> v, pos |-> p]

RECURSIVE SkipSpaces(_, _)
SkipSpaces(d, i) ==
    IF i <= Len(d) /\ d[i] = " " THEN SkipSpaces(d, i + 1) ELSE i

HasLiteral(d, i, lit) ==
    i + Len(lit) - 1 <= Len(d) /\ SubSeq(d, i, i + Len(lit) - 1) = lit

RECURSIVE ScanDigits(_, _, _)
ScanDigits(d, i, acc) ==
    IF i <= Len(d) /\ IsDigit(d[i])
    THEN ScanDigits(d, i + 1, acc * 10 + DigitValue(d[i]))
    ELSE [val |-> acc, pos |-> i]

\* an integer: an optional minus sign, then 0 or a digit string without a
\* leading 0; a fraction or an exponent is outside the modelled documents
ParseNumber(d, i) ==
    LET neg == i <= Len(d) /\ d[i] = "-"
        j == IF neg THEN i + 1 ELSE i
    IN IF j > Len(d) \/ ~IsDigit(d[j]) THEN JsonError
       ELSE LET r == IF d[j] = "0" THEN [val |-> 0, pos |-> j + 1]
                     ELSE ScanDigits(d, j, 0)
            IN IF r.pos <= Len(d) /\ d[r.pos] \in {".", "e", "E"}
               THEN JsonError
               ELSE JsonOk(PyInt(IF neg THEN 0 - r.val ELSE r.val), r.pos)

\* a string starting after its opening quote
RECURSIVE ParseString(_, _, _)
ParseString(d, i, acc) ==
    IF i > Len(d) THEN JsonError
    ELSE IF d[i] = "\"" THEN JsonOk(PyStr(acc), i + 1)
    ELSE IF d[i] \in {"\\", "\n"} THEN JsonError
    ELSE ParseString(d, i + 1, Append(acc, d[i]))

RECURSIVE ParseValue(_, _)
RECURSIVE ParseMembers(_, _, _)
RECURSIVE ParseElements(_, _)

\* members of an object, starting at a key's opening quote
ParseMembers(d, i, acc) ==
    IF i > Len(d) \/ d[i] # "\"" THEN JsonError
    ELSE LET k == ParseString(d, i + 1, <<>>) IN
         IF ~k.ok THEN JsonError
         ELSE LET c == SkipSpaces(d, k.pos) IN
              IF c > Len(d) \/ d[c] # ":" THEN JsonError
              ELSE LET v == ParseValue(d, SkipSpaces(d, c + 1)) IN
                   IF ~v.ok THEN JsonError
                   ELSE LET n == SkipSpaces(d, v.pos)
                            m == Append(acc, <<k.val.v, v.val>>)
                        IN IF n > Len(d) THEN JsonError
                           ELSE IF d[n] = "}" THEN JsonOk(PyDict(m), n + 1)
                           ELSE IF d[n] = ","
                                THEN ParseMembers(d, SkipSpaces(d, n + 1), m)
                                ELSE JsonError

\* elements of an array, starting at an element
ParseElements(d, i) ==
    LET v == ParseValue(d, i) IN
    IF ~v.ok THEN JsonError
    ELSE LET n == SkipSpaces(d, v.pos) IN
         IF n > Len(d) THEN JsonError
         ELSE IF d[n] = "]" THEN JsonOk(PyList, n + 1)
         ELSE IF d[n] = "," THEN ParseElements(d, SkipSpaces(d, n + 1))
         ELSE JsonError

ParseValue(d, i) ==
    IF i > Len(d) THEN JsonError
    ELSE IF d[i] = "{"
         THEN LET j == SkipSpaces(d, i + 1) IN
              IF j <= Len(d) /\ d[j] = "}" THEN JsonOk(PyDict(<<>>), j + 1)
              ELSE ParseMembers(d, j, <<>>)
    ELSE IF d[i] = "["
         THEN LET j == SkipSpaces(d, i + 1) IN
              IF j <= Len(d) /\ d[j] = "]" THEN JsonOk(PyList, j + 1)
              ELSE ParseElements(d, j)
    ELSE IF d[i] = "\"" THEN ParseString(d, i + 1, <<>>)
    ELSE IF HasLiteral(d, i, <<"t","r","u","e">>) THEN JsonOk(PyBool(TRUE), i + 4)
    ELSE IF HasLiteral(d, i, <<"f","a","l","s","e">>) THEN JsonOk(PyBool(FALSE), i + 5)
    ELSE IF HasLiteral(d, i, <<"n","u","l","l">>) THEN JsonOk(None, i + 4)
    ELSE ParseNumber(d, i)

\* json.loads(bytes): one value, with nothing but spaces around it
JsonLoads(bytes) ==
    LET d == [i \in 1..Len(bytes) |-> Chr(bytes[i])]
        v == ParseValue(d, SkipSpaces(d, 1))
    IN IF v.ok /\ SkipSpaces(d, v.pos) = Len(d) + 1 THEN v ELSE JsonError

\* dict.get(key): the last member with that key, else None
DictGet(data, key) ==
    LET hits == {i \in 1..Len(data.members) : data.members[i][1] = key}
    IN IF hits = {} THEN None
       ELSE data.members[CHOOSE i \in hits : \A j \in hits : j <= i][2]

\* ------------------------------------------------------------------------
\* config.py: parse_jwt_expiry, check_token_status
\* ------------------------------------------------------------------------

\* the payload with = appended up to a multiple of four characters
PadPayload(payload) ==
    LET padding == 4 - (Len(payload) % 4)
    IN IF padding # 4 THEN payload \o [i \in 1..padding |-> "="] ELSE payload

parse_jwt_expiry(token) ==
    LET parts == StrSplit(token, ".") IN
    IF Len(parts) # 3 THEN None
    ELSE LET decoded == UrlsafeB64Decode(PadPayload(parts[2])) IN
         IF ~decoded.ok THEN None
         ELSE LET data == JsonLoads(decoded.bytes) IN
              IF ~data.ok THEN None
              ELSE IF data.val.t # "dict" THEN None
              ELSE DictGet(data.val, <<"e","x","p">>)

Returned(valid, remaining) ==
    [kind |-> "return", is_valid |-> valid, seconds_remaining |-> remaining]
Raised(exc) == [kind |-> "raise", exc |-> exc]

\* check_token_status once exp is parsed. exp - now is defined for int and
\* bool and is a TypeError for any other value.
status_of_expiry(exp, clock) ==
    IF exp = None THEN Returned(TRUE, None)
    ELSE IF exp.t = "int"
         THEN Returned(exp.v - clock > 0, PyInt(exp.v - clock))
    ELSE IF exp.t = "bool"
         THEN LET n == IF exp.v THEN 1 ELSE 0
              IN Returned(n - clock > 0, PyInt(n - clock))
    ELSE Raised("TypeError")

check_token_status(token, clock) ==
    IF token = <<>> THEN Returned(FALSE, None)
    ELSE status_of_expiry(parse_jwt_expiry(token), clock)


Return(value) == [kind |-> "return", value |-> value]

\* check_auth without the expiry check: any non-empty token passes
check_auth_token_only(cfg, clock) == Return(cfg.session_token # <<>>)

\* check_auth once the token status is there: is_valid, or what was raised
auth_of_status(st) ==
    IF st.kind = "raise" THEN st
    ELSE IF ~st.is_valid THEN Return(FALSE)
    ELSE Return(TRUE)

\* ZylchCLI.check_auth: a non-empty token that check_token_status calls valid
check_auth(cfg, clock) ==
    IF cfg.session_token = <<>> THEN Return(FALSE)
    ELSE auth_of_status(check_token_status(cfg.session_token, clock))

\* ------------------------------------------------------------------------
\* The commands of the interactive loop
\* ------------------------------------------------------------------------

CMD_QUIT == <<"/","q","u","i","t">>
CMD_EXIT == <<"/","e","x","i","t">>
CMD_Q == <<"/","q">>
CMD_LOGIN == <<"/","l","o","g","i","n">>
CMD_LOGOUT == <<"/","l","o","g","o","u","t">>
CMD_STATUS == <<"/","s","t","a","t","u","s">>
CMD_NEW == <<"/","n","e","w">>
CMD_CONNECT == <<"/","c","o","n","n","e","c","t">>
CMD_CONNECT_ANTHROPIC == <<"/","c","o","n","n","e","c","t"," ","a","n","t","h","r","o","p","i","c">>
CMD_CONNECT_GOOGLE == <<"/","c","o","n","n","e","c","t"," ","g","o","o","g","l","e">>
CMD_CONNECT_MICROSOFT == <<"/","c","o","n","n","e","c","t"," ","m","i","c","r","o","s","o","f","t">>
CMD_CONNECT_RESET == <<"/","c","o","n","n","e","c","t"," ","-","-","r","e","s","e","t">>
CMD_CONNECT_PREFIX == <<"/","c","o","n","n","e","c","t"," ">>
SVC_GOOGLE == <<"g","o","o","g","l","e">>
SVC_MICROSOFT == <<"m","i","c","r","o","s","o","f","t">>
SVC_ANTHROPIC == <<"a","n","t","h","r","o","p","i","c">>

Branch(b, service, reset) == [branch |-> b, service |-> service, reset |-> reset]

\* the command compared as typed, only stripped
command_of_as_typed(line) == StrStrip(line)

\* cmd = user_input.strip().lower()
command_of(line) == StrLower(StrStrip(line))

\* The if/elif chain of the loop body: which handler an input line reaches,
\* and for connect() with which arguments.
dispatch(line) ==
    IF StrStrip(line) = <<>> THEN Branch("blank", <<>>, FALSE)
    ELSE LET cmd == command_of(line) IN
         IF cmd \in {CMD_QUIT, CMD_EXIT, CMD_Q} THEN Branch("quit", <<>>, FALSE)
         ELSE IF cmd = CMD_LOGIN THEN Branch("login", <<>>, FALSE)
         ELSE IF cmd = CMD_LOGOUT THEN Branch("logout", <<>>, FALSE)
         ELSE IF cmd = CMD_STATUS THEN Branch("status", <<>>, FALSE)
         ELSE IF cmd = CMD_NEW THEN Branch("new", <<>>, FALSE)
         ELSE IF cmd = CMD_CONNECT THEN Branch("connect", <<>>, FALSE)
         ELSE IF cmd = CMD_CONNECT_ANTHROPIC
              THEN Branch("connect", SVC_ANTHROPIC, FALSE)
         ELSE IF cmd = CMD_CONNECT_GOOGLE
              THEN Branch("connect", SVC_GOOGLE, FALSE)
         ELSE IF cmd = CMD_CONNECT_MICROSOFT
              THEN Branch("connect", SVC_MICROSOFT, FALSE)
         ELSE IF cmd = CMD_CONNECT_RESET THEN Branch("connect", <<>>, TRUE)
         ELSE IF StrStartsWith(cmd, CMD_CONNECT_PREFIX)
              THEN Branch("connect", StrStrip(StrAfterFirst(cmd, " ")), FALSE)
         ELSE Branch("send", <<>>, FALSE)

\* the normalised command sent in place of the line
chat_message_normalised(line) == StrLower(StrStrip(line))

\* message=user_input: the line as it was read
chat_message(line) == line

\* ------------------------------------------------------------------------
\* The environment: input lines, tokens, results of the collaborators
\* ------------------------------------------------------------------------

InputLines ==
    { <<>>,
      <<" "," ","\t">>,
      <<"/","q","u","i","t">>,
      <<"/","E","x","i","t">>,
      <<" ","/","q"," ">>,
      <<" ","/","L","O","G","I","N"," ">>,
      <<"/","l","o","g","o","u","t">>,
      <<"/","S","t","a","t","u","s">>,
      <<"/","n","e","w">>,
      <<"/","c","o","n","n","e","c","t">>,
      <<"/","c","o","n","n","e","c","t"," ","g","o","o","g","l","e">>,
      <<"/","C","o","n","n","e","c","t"," "," ","M","i","c","r","o","s","o","f","t">>,
      <<"/","c","o","n","n","e","c","t"," ","a","n","t","h","r","o","p","i","c">>,
      <<"/","c","o","n","n","e","c","t"," ","-","-","r","e","s","e","t">>,
      <<"/","c","o","n","n","e","c","t"," ","f","o","o">>,
      <<"/","S","y","n","c"," ","7"," ">>,
      <<"/","s","t","a","t","u","s"," ","x">>,
      <<"H","e","l","l","o"," ">> }

\* header.payload.signature with payload {"exp":1}
TOKEN_EXP1 == <<"h",".","e","y","J","l","e","H","A","i","O","j","F","9",".","s">>
\* a token that is not JWT-shaped
TOKEN_OPAQUE == <<"a","b","c">>
\* payload {"exp":"a"}
TOKEN_EXP_STR == <<"h",".","e","y","J","l","e","H","A","i","O","i","J","h","I","n","0",".","s">>

Tokens == {TOKEN_EXP1, TOKEN_OPAQUE, TOKEN_EXP_STR}

NoSession == "None"
SessionIds == {"s1", "s2"}

Session(token, owner_id, email) ==
    [session_token |-> token, owner_id |-> owner_id, email |-> email]

\* CLIConfig defaults for the session fields
EmptySession == Session(<<>>, "", "")

\* every line of InputLines with what dispatch makes of it
dispatched == {[line |-> line, to |-> dispatch(line)] : line \in InputLines}

\* the lines that reach a handler
lines_to(branch) == {d.line : d \in {e \in dispatched : e.to.branch = branch}}

\* the arguments connect() gets for a line
dispatch_of(line) == (CHOOSE d \in dispatched : d.line = line).to

\* what load_config finds: no session, or the session a login saved
StoredSessions == {EmptySession} \cup {Session(t, "u1", "u1@x") : t \in Tokens}

\* what initiate_browser_login hands back: None after the deadline, a dict
\* with an error, a dict with the callback's fields, or an exception
LoginOutcomes ==
    {Return(None), Return([error |-> "access_denied"]), Raised("Exception"),
     Return([token |-> <<>>, owner_id |-> "u2", email |-> "u2@x"]),
     Return([owner_id |-> "u2", email |-> "u2@x"]),
     Return([token |-> TOKEN_OPAQUE])}
    \cup {Return([token |-> t, owner_id |-> "u2", email |-> "u2@x"]) : t \in Tokens}

\* what initiate_service_connect hands back
ConnectOutcomes ==
    {Return(None), Return([error |-> "access_denied"]), Raised("Exception"),
     Return([email |-> "g@x"])}

\* save_config writes the file or open() fails
SaveOutcomes == {"ok", "OSError"}

\* ------------------------------------------------------------------------
\* oauth_handler: what one run of the coordinator and its listener holds
\* ------------------------------------------------------------------------

\* the deadline of a listener, in ticks of its timer
MaxWait == 1
\* requests the browser sends to the callback ports in one behaviour
MaxRequests == 3

\* the runs: a login, a service connect, and another service connect that
\* is invoked while the listener of the first holds the port
FlowIds == {"login", "connect", "connect_again"}

FlowOp(f) ==
    IF f = "login" THEN "initiate_browser_login" ELSE "initiate_service_connect"

\* OAuthResult
Success(token, owner_id, email) ==
    [kind |-> "Success", token |-> token, owner_id |-> owner_id,
     email |-> email]
Error(message) == [kind |-> "Error", message |-> message]
Timeout == [kind |-> "Timeout"]
EmptySlot == [kind |-> "Empty"]

NOT_AUTHENTICATED == "not authenticated"
BIND_ERROR == "BindError"

\* the requests a browser may send to a callback port
CALLBACK_PATH == "/callback"
FAVICON_PATH == "/favicon.ico"
Request(path, params) == [path |-> path, params |-> params]
BrowserRequests ==
    {Request(FAVICON_PATH, [q |-> ""]),
     Request(CALLBACK_PATH, [error |-> "access_denied"]),
     Request(CALLBACK_PATH,
             [token |-> TOKEN_OPAQUE, owner_id |-> "u2", email |-> "u2@x"])}

\* the result a matching callback carries
ResultOf(params) ==
    IF "error" \in DOMAIN params THEN Error(params.error)
    ELSE Success(params.token, params.owner_id, params.email)

\* one run: Idle, Listening, Resolved, TimedOut, Returned, Dispatched
\* bound: the listener holds its port; browser: the URL was handed to the
\* browser; slot: the result slot of the listener; result: what the
\* coordinator returned
Invocation(state, auth_token, bound, browser, elapsed, acked, slot, result) ==
    [state |-> state, auth_token |-> auth_token, bound |-> bound,
     browser |-> browser, elapsed |-> elapsed, acked |-> acked,
     slot |-> slot, result |-> result]

IdleInvocation ==
    Invocation("Idle", <<>>, FALSE, FALSE, 0, 0, EmptySlot, EmptySlot)

NoInvocations == [f \in FlowIds |-> IdleInvocation]

NoArrival == [port |-> 0, request |-> Request("", [q |-> ""]), fate |-> "none"]

\* ------------------------------------------------------------------------
\* State
\* ------------------------------------------------------------------------

VARIABLES
    pc,          \* main, chat, AwaitingInput, Exited (codec: the codec runs)
    exit_code,   \* process exit code, NotExited while running
    exit_cause,  \* what ended the process
    config,      \* self.config: session_token, owner_id, email
    persisted,   \* the same fields in ~/.zylch/cli_config.json
    api_token,   \* the token self.api_client holds
    session_id,  \* the local session_id of chat()
    now,         \* int(time.time())
    user_input,  \* the line of the last cycle
    handler,     \* the handler the last cycle ran
    calls,       \* the remote calls the last cycle made, in order
    flows,       \* the OAuth flows the last cycle started
    msg,         \* what the last cycle printed last
    token_in,    \* codec runs: the token given
    exp_out,     \* codec runs: what parse_jwt_expiry gave
    status_out,  \* codec runs: what check_token_status gave
    coordinator, \* OAuth runs: each invocation of the coordinator
    arrival,     \* OAuth runs: the last request that reached a callback port
    arrivals     \* OAuth runs: how many requests arrived so far

vars == <<pc, exit_code, exit_cause, config, persisted, api_token, session_id,
          now, user_input, handler, calls, flows, msg,
          token_in, exp_out, status_out, coordinator, arrival, arrivals>>

codec_vars == <<token_in, exp_out, status_out>>

oauth_vars == <<coordinator, arrival, arrivals>>

NotExited == 0 - 1
Unset == [t |-> "unset", kind |-> "unset"]

Init ==
    /\ pc = "main"
    /\ exit_code = NotExited
    /\ exit_cause = "none"
    /\ config \in StoredSessions
    /\ persisted = config
    /\ api_token = config.session_token
    /\ session_id = NoSession
    /\ now = 0
    /\ user_input = <<>>
    /\ handler = "init"
    /\ calls = <<>>
    /\ flows = <<>>
    /\ msg = "none"
    /\ token_in = <<>>
    /\ exp_out = Unset
    /\ status_out = Unset
    /\ coordinator = NoInvocations
    /\ arrival = NoArrival
    /\ arrivals = 0

Observe(line, h, c, f, m) ==
    /\ user_input' = line
    /\ handler' = h
    /\ calls' = c
    /\ flows' = f
    /\ msg' = m

Exit(code, cause) ==
    /\ pc' = "Exited"
    /\ exit_code' = code
    /\ exit_cause' = cause

Continue ==
    /\ pc' = "AwaitingInput"
    /\ UNCHANGED <<exit_code, exit_cause>>

Call(op) == [op |-> op]


\* ------------------------------------------------------------------------
\* Startup: main() after ZylchCLI() was built
\* ------------------------------------------------------------------------

HealthOutcomes == {"healthy", "unhealthy", "unreachable"}

\* check_server taking any answer of the server for a healthy one
CheckServer_any_answer ==
    /\ pc = "main"
    /\ \E health \in HealthOutcomes :
         /\ Observe(<<>>, "check_server", <<Call("health_check")>>, <<>>, health)
         /\ IF health # "unreachable"
            THEN pc' = "chat" /\ UNCHANGED <<exit_code, exit_cause>>
            ELSE Exit(1, "health_check")
    /\ UNCHANGED <<config, persisted, api_token, session_id, now, codec_vars, oauth_vars>>

\* main: check_server, then sys.exit(1) or chat()
CheckServer ==
    /\ pc = "main"
    /\ \E health \in HealthOutcomes :
         /\ Observe(<<>>, "check_server", <<Call("health_check")>>, <<>>, health)
         /\ IF health = "healthy"
            THEN pc' = "chat" /\ UNCHANGED <<exit_code, exit_cause>>
            ELSE Exit(1, "health_check")
    /\ UNCHANGED <<config, persisted, api_token, session_id, now, codec_vars, oauth_vars>>

\* chat() up to the loop: _show_startup_status, then session_id = None.
\* The status check runs outside the try of chat(), so what it raises leaves
\* chat() and main().
\* the startup status asking the server whatever the local check says
show_startup_status_asks_anyway(st) ==
    /\ pc = "chat"
    /\ IF config.session_token = <<>>
       THEN /\ Observe(<<>>, "startup", <<>>, <<>>, "not_logged_in")
            /\ Continue
       ELSE IF st.kind = "raise"
       THEN /\ Observe(<<>>, "startup", <<>>, <<>>, "traceback")
            /\ Exit(1, "error")
       ELSE /\ Observe(<<>>, "startup",
                       <<Call("get_anthropic_status"), Call("get_google_status")>>,
                       <<>>, IF st.is_valid THEN "logged_in" ELSE "session_expired")
            /\ Continue
    /\ session_id' = NoSession
    /\ UNCHANGED <<config, persisted, api_token, now, codec_vars, oauth_vars>>

show_startup_status(st) ==
    /\ pc = "chat"
    /\ IF config.session_token = <<>>
       THEN /\ Observe(<<>>, "startup", <<>>, <<>>, "not_logged_in")
            /\ Continue
       ELSE IF st.kind = "raise"
       THEN /\ Observe(<<>>, "startup", <<>>, <<>>, "traceback")
            /\ Exit(1, "error")
       ELSE IF ~st.is_valid
       THEN /\ Observe(<<>>, "startup", <<>>, <<>>, "session_expired")
            /\ Continue
       ELSE /\ Observe(<<>>, "startup",
                       <<Call("get_anthropic_status"), Call("get_google_status")>>,
                       <<>>, "logged_in")
            /\ Continue
    /\ session_id' = NoSession
    /\ UNCHANGED <<config, persisted, api_token, now, codec_vars, oauth_vars>>

ShowStartupStatus ==
    show_startup_status(check_token_status(config.session_token, now))

\* ------------------------------------------------------------------------
\* The loop of chat(): one action per way through the loop body
\* ------------------------------------------------------------------------

\* prompt() raises KeyboardInterrupt or EOFError
ReadEof ==
    /\ pc = "AwaitingInput"
    /\ Observe(<<>>, "eof", <<>>, <<>>, "goodbye")
    /\ Exit(0, "eof")
    /\ UNCHANGED <<config, persisted, api_token, session_id, now, codec_vars, oauth_vars>>

\* if not user_input.strip(): continue
Blank ==
    /\ pc = "AwaitingInput"
    /\ \E line \in lines_to("blank") :
         Observe(line, "blank", <<>>, <<>>, "none")
    /\ Continue
    /\ UNCHANGED <<config, persisted, api_token, session_id, now, codec_vars, oauth_vars>>

Quit ==
    /\ pc = "AwaitingInput"
    /\ \E line \in lines_to("quit") :
         Observe(line, "quit", <<>>, <<>>, "goodbye")
    /\ Exit(0, "quit")
    /\ UNCHANGED <<config, persisted, api_token, session_id, now, codec_vars, oauth_vars>>

LOGIN_CALLBACK_PORT == 8765
\* service connect asking for the port of login
SAME_CALLBACK_PORT == LOGIN_CALLBACK_PORT
CONNECT_CALLBACK_PORT == 8766

Flow(op, service, auth_token, port, outcome) ==
    [op |-> op, service |-> service, auth_token |-> auth_token,
     callback_port |-> port, outcome |-> outcome]

\* result.get(key) or the empty string
GetOrEmpty(result, key) == IF key \in DOMAIN result THEN result[key] ELSE ""

\* login asking only whether the result has a token field
HasToken_key_present(result) == "token" \in DOMAIN result

\* if token: with token = result.get("token")
HasToken(result) == "token" \in DOMAIN result /\ result.token # <<>>

\* login storing the token and leaving owner_id and email as they were
saved_session_token_only(cfg, result) ==
    [cfg EXCEPT !.session_token = result.token]

\* login: the three session fields as the callback gave them
saved_session(cfg, result) ==
    [cfg EXCEPT !.session_token = result.token,
                !.owner_id = GetOrEmpty(result, "owner_id"),
                !.email = GetOrEmpty(result, "email")]

\* ZylchCLI.login. Everything after the panel is inside try/except Exception.
\* login() from the outcome of initiate_browser_login on
login(line, outcome) ==
            LET flow == Flow("initiate_browser_login", <<>>, <<>>,
                             LOGIN_CALLBACK_PORT, outcome)
                keep == UNCHANGED <<config, persisted, api_token>>
            IN IF outcome.kind = "raise"
               THEN keep /\ Observe(line, "login", <<>>, <<flow>>, "login_error")
               ELSE IF outcome.value = None
               THEN keep /\ Observe(line, "login", <<>>, <<flow>>, "login_timeout")
               ELSE IF "error" \in DOMAIN outcome.value
               THEN keep /\ Observe(line, "login", <<>>, <<flow>>, "login_failed")
               ELSE IF ~HasToken(outcome.value)
               THEN keep /\ Observe(line, "login", <<>>, <<flow>>, "no_token")
               ELSE /\ config' = saved_session(config, outcome.value)
                    /\ \E saved \in SaveOutcomes :
                         IF saved = "ok"
                         THEN /\ persisted' = config'
                              /\ api_token' = outcome.value.token
                              /\ Observe(line, "login", <<>>, <<flow>>, "logged_in")
                         ELSE /\ UNCHANGED <<persisted, api_token>>
                              /\ Observe(line, "login", <<>>, <<flow>>, "login_error")

Login ==
    /\ pc = "AwaitingInput"
    /\ \E line \in lines_to("login"), outcome \in LoginOutcomes :
         login(line, outcome)
    /\ Continue
    /\ UNCHANGED <<session_id, now, codec_vars, oauth_vars>>

\* logout emptying the token and leaving owner_id and email
cleared_session_token_only(cfg) == [cfg EXCEPT !.session_token = <<>>]

\* logout: the three session fields emptied
cleared_session(cfg) ==
    [cfg EXCEPT !.session_token = <<>>, !.owner_id = "", !.email = ""]

RemoteOutcomes == {"ok", "ZylchAuthError", "ZylchAPIError"}

\* ZylchCLI.logout. The remote logout is inside try/except; save_config is
\* not, and what it raises reaches the except of chat(), which ends the loop.
\* self.api_client.logout(): what the client holds as its token afterwards.
\* cli.py never resets it; whether the client drops it is its own business.
ApiTokenAfterLogout(tok) == {tok, <<>>}

\* logout that also drops the conversation
Logout_new_conversation ==
    /\ pc = "AwaitingInput"
    /\ \E line \in lines_to("logout"), remote \in RemoteOutcomes, saved \in SaveOutcomes :
         /\ config' = cleared_session(config)
         /\ api_token' \in ApiTokenAfterLogout(api_token)
         /\ IF saved = "ok"
            THEN /\ persisted' = config'
                 /\ Observe(line, "logout", <<Call("logout")>>, <<>>, "logged_out")
                 /\ Continue
            ELSE /\ UNCHANGED persisted
                 /\ Observe(line, "logout", <<Call("logout")>>, <<>>, "chat_error")
                 /\ Exit(0, "error")
    /\ session_id' = NoSession
    /\ UNCHANGED <<now, codec_vars, oauth_vars>>

Logout ==
    /\ pc = "AwaitingInput"
    /\ \E line \in lines_to("logout"), remote \in RemoteOutcomes, saved \in SaveOutcomes :
         /\ config' = cleared_session(config)
         /\ api_token' \in ApiTokenAfterLogout(api_token)
         /\ IF saved = "ok"
            THEN /\ persisted' = config'
                 /\ Observe(line, "logout", <<Call("logout")>>, <<>>, "logged_out")
                 /\ Continue
            ELSE /\ UNCHANGED persisted
                 /\ Observe(line, "logout", <<Call("logout")>>, <<>>, "chat_error")
                 /\ Exit(0, "error")
    /\ UNCHANGED <<session_id, now, codec_vars, oauth_vars>>

\* storage.get_cache_stats() answers or raises
StorageOutcomes == {"ok", "raise"}

\* ZylchCLI.status: prints the config; reads the local cache when a token is
\* held. Nothing is caught here.
Status ==
    /\ pc = "AwaitingInput"
    /\ \E line \in lines_to("status"), stats \in StorageOutcomes :
         IF config.session_token # <<>> /\ stats = "raise"
         THEN /\ Observe(line, "status", <<>>, <<>>, "chat_error")
              /\ Exit(0, "error")
         ELSE /\ Observe(line, "status", <<>>, <<>>, "status")
              /\ Continue
    /\ UNCHANGED <<config, persisted, api_token, session_id, now, codec_vars, oauth_vars>>

\* /new that prints and leaves session_id as it was
New_keeps_session ==
    /\ pc = "AwaitingInput"
    /\ \E line \in lines_to("new") :
         Observe(line, "new", <<>>, <<>>, "new_conversation")
    /\ Continue
    /\ UNCHANGED <<config, persisted, api_token, session_id, now, codec_vars, oauth_vars>>

New ==
    /\ pc = "AwaitingInput"
    /\ \E line \in lines_to("new") :
         Observe(line, "new", <<>>, <<>>, "new_conversation")
    /\ session_id' = NoSession
    /\ Continue
    /\ UNCHANGED <<config, persisted, api_token, now, codec_vars, oauth_vars>>

\* send_chat_message answers with a session_id (or none) or raises
ChatReplies ==
    {Return(sid) : sid \in SessionIds \cup {NoSession}}
    \cup {Raised("ZylchAuthError"), Raised("ZylchAPIError")}

\* one send_chat_message call: what was passed and what came back
ChatCall(message, sid, reply) ==
    [op |-> "send_chat_message", message |-> message, session_id |-> sid,
     reply |-> reply]

\* The end of the loop body: every line no branch above took.
Send ==
    /\ pc = "AwaitingInput"
    /\ \E line \in lines_to("send") :
         IF config.session_token = <<>>
         THEN /\ Observe(line, "send", <<>>, <<>>, "not_logged_in")
              /\ UNCHANGED session_id
         ELSE \E reply \in ChatReplies :
              LET call == ChatCall(chat_message(line), session_id, reply) IN
              IF reply.kind = "return"
              THEN /\ session_id' = reply.value
                   /\ Observe(line, "send", <<call>>, <<>>, "response")
              ELSE /\ UNCHANGED session_id
                   /\ Observe(line, "send", <<call>>, <<>>,
                              IF reply.exc = "ZylchAuthError"
                              THEN "session_expired" ELSE "api_error")
    /\ Continue
    /\ UNCHANGED <<config, persisted, api_token, now, codec_vars, oauth_vars>>


\* ------------------------------------------------------------------------
\* connect() and what it calls
\* ------------------------------------------------------------------------

Outcome(c, f, m) == [calls |-> c, flows |-> f, msg |-> m]

\* _show_connection_status: both status calls, each inside its own try
show_connection_status ==
    {Outcome(<<Call("get_anthropic_status"), Call("get_google_status")>>,
             <<>>, "connection_status")}

\* _disconnect_all_services: after the confirmation, a status call per
\* service and a revoke call where the status says there is something to
\* revoke; each service inside its own try
disconnect_all_services ==
    {Outcome(<<>>, <<>>, "cancelled")}
    \cup {Outcome(a \o g, <<>>, "disconnected") :
            a \in {<<Call("get_anthropic_status")>>,
                   <<Call("get_anthropic_status"), Call("revoke_anthropic")>>},
            g \in {<<Call("get_google_status")>>,
                   <<Call("get_google_status"), Call("revoke_google")>>}}

connect_service_msg(outcome) ==
    IF outcome.kind = "raise" THEN "connect_error"
    ELSE IF outcome.value = None THEN "connect_timeout"
    ELSE IF "error" \in DOMAIN outcome.value THEN "connect_failed"
    ELSE "connected"

\* _connect_service starting the flow again after a timeout
connect_service_retrying(service, cfg) ==
    LET flow(o) == Flow("initiate_service_connect", service, cfg.session_token,
                        CONNECT_CALLBACK_PORT, o)
    IN {Outcome(<<>>, <<flow(Return(None)), flow(o)>>, connect_service_msg(o)) :
            o \in ConnectOutcomes}
       \cup {Outcome(<<>>, <<flow(o)>>, connect_service_msg(o)) :
                o \in ConnectOutcomes \ {Return(None)}}

\* _connect_service: for google a status call first, which may end the
\* handler (already connected, or the call raised); then the flow on the
\* connect port with the session token
connect_service(service, cfg) ==
    LET probe == IF service = SVC_GOOGLE
                 THEN <<Call("get_google_status")>> ELSE <<>>
        early == IF service = SVC_GOOGLE
                 THEN {Outcome(probe, <<>>, "already_connected"),
                       Outcome(probe, <<>>, "connect_error")}
                 ELSE {}
    IN early \cup
       {Outcome(probe,
                <<Flow("initiate_service_connect", service, cfg.session_token,
                       CONNECT_CALLBACK_PORT, o)>>,
                connect_service_msg(o)) : o \in ConnectOutcomes}

\* _connect_anthropic: a status call, then the prompts; the key is sent
\* unless the user declines or gives none
connect_anthropic ==
    {Outcome(<<Call("get_anthropic_status")>>, <<>>, "cancelled"),
     Outcome(<<Call("get_anthropic_status"), Call("set_anthropic_key")>>,
             <<>>, "key_saved"),
     Outcome(<<Call("get_anthropic_status"), Call("set_anthropic_key")>>,
             <<>>, "key_error")}

\* connect() after its check_auth guard
connect_body(service, reset, cfg) ==
    IF reset THEN disconnect_all_services
    ELSE IF service = <<>> THEN show_connection_status
    ELSE IF StrLower(service) = SVC_GOOGLE THEN connect_service(SVC_GOOGLE, cfg)
    ELSE IF StrLower(service) = SVC_MICROSOFT
         THEN connect_service(SVC_MICROSOFT, cfg)
    ELSE IF StrLower(service) = SVC_ANTHROPIC THEN connect_anthropic
    ELSE {Outcome(<<>>, <<>>, "unknown_service")}

\* connect() taking the email of the connected account for the email of the
\* session
connect_storing_email(auth) ==
    /\ pc = "AwaitingInput"
    /\ \E line \in lines_to("connect") :
         LET d == dispatch_of(line) IN
         IF auth.kind = "raise"
         THEN /\ Observe(line, "connect", <<>>, <<>>, "chat_error")
              /\ Exit(0, "error")
              /\ UNCHANGED config
         ELSE IF ~auth.value
         THEN /\ Observe(line, "connect", <<>>, <<>>, "not_logged_in")
              /\ Continue
              /\ UNCHANGED config
         ELSE /\ \E o \in connect_body(d.service, d.reset, config) :
                   /\ Observe(line, "connect", o.calls, o.flows, o.msg)
                   /\ config' = IF o.msg = "connected"
                                THEN [config EXCEPT !.email = "g@x"]
                                ELSE config
              /\ Continue
    /\ UNCHANGED <<persisted, api_token, session_id, now, codec_vars, oauth_vars>>

\* ZylchCLI.connect once check_auth answered. check_auth is called outside
\* any try: what it raises reaches the except of chat(), which ends the loop.
connect(auth) ==
    /\ pc = "AwaitingInput"
    /\ \E line \in lines_to("connect") :
         LET d == dispatch_of(line) IN
         IF auth.kind = "raise"
         THEN /\ Observe(line, "connect", <<>>, <<>>, "chat_error")
              /\ Exit(0, "error")
         ELSE IF ~auth.value
         THEN /\ Observe(line, "connect", <<>>, <<>>, "not_logged_in")
              /\ Continue
         ELSE /\ \E o \in connect_body(d.service, d.reset, config) :
                   Observe(line, "connect", o.calls, o.flows, o.msg)
              /\ Continue
    /\ UNCHANGED <<config, persisted, api_token, session_id, now, codec_vars, oauth_vars>>

Connect == connect(check_auth(config, now))

\* ------------------------------------------------------------------------
\* The clock
\* ------------------------------------------------------------------------

\* time.time() moves on while the process runs
Tick ==
    /\ pc \in {"main", "chat", "AwaitingInput"}
    /\ now < MaxNow
    /\ now' = now + 1
    /\ UNCHANGED <<pc, exit_code, exit_cause, config, persisted, api_token,
                   session_id, user_input, handler, calls, flows, msg,
                   codec_vars, oauth_vars>>

Next ==
    \/ CheckServer
    \/ ShowStartupStatus
    \/ ReadEof
    \/ Blank
    \/ Quit
    \/ Login
    \/ Logout
    \/ Status
    \/ New
    \/ Connect
    \/ Send
    \/ Tick

Spec == Init /\ [][Next]_vars

\* ------------------------------------------------------------------------
\* The token codec on its own: one token and one clock value per behaviour
\* ------------------------------------------------------------------------

\* tokens around every way parse_jwt_expiry can fail
CodecTokens ==
    { <<>>,
      <<"a","b","c">>,
      <<"a",".","b">>,
      <<"a",".","b",".","c",".","d">>,
      <<".",".">>,
      <<"h",".","e",".","s">>,
      <<"h",".","e","y",".","s">>,
      <<"h",".","!","!","!","!",".","s">>,
      <<"h",".","A","A","A","A",".","s">>,
      <<"h",".","e","3","0",".","s">>,
      <<"h",".","W","z","V","d",".","s">>,
      <<"h",".","N","Q",".","s">>,
      <<"h",".","b","n","V","s","b","A",".","s">>,
      <<"h",".","e","y","J","z","d","W","I","i","O","j","F","9",".","s">>,
      <<"h",".","e","y","J","l","e","H","A","i","O","j","U",".","s">>,
      <<"h",".","e","y","J","l","e","H","A","i","O","m","5","1","b","G","x","9",".","s">>,
      <<"h",".","e","y","J","l","e","H","A","i","O","j","J","9",".","s">>,
      <<"h",".","e","y","J","l","e","H","A","i","O","j","R","9",".","s">>,
      <<"h",".","e","y","J","l","e","H","A","i","O","i","A","z","f","Q",".","s">>,
      <<"h",".","e","y","J","l","e","H","A","i","O","i","0","x","f","Q",".","s">>,
      <<"h",".","e","y","J","l","e","H","A","i","O","j","E","s","I","m","V","4","c","C","I","6","M","3","0",".","s">>,
      <<"h",".","e","y","J","l","e","H","A","i","O","n","R","y","d","W","V","9",".","s">>,
      <<"h",".","e","y","J","l","e","H","A","i","O","i","J","h","I","n","0",".","s">>,
      <<"h",".","e","y","J","l","e","H","A","i","O","n","t","9","f","Q",".","s">>,
      <<"h",".","e","y","J","l","e","H","A","i","O","l","s","x","L","D","J","d","f","Q",".","s">> }

InitCodec ==
    /\ pc = "codec"
    /\ exit_code = NotExited
    /\ exit_cause = "none"
    /\ config = EmptySession
    /\ persisted = EmptySession
    /\ api_token = <<>>
    /\ session_id = NoSession
    /\ now \in 0..MaxNow
    /\ user_input = <<>>
    /\ handler = "init"
    /\ calls = <<>>
    /\ flows = <<>>
    /\ msg = "none"
    /\ token_in \in CodecTokens
    /\ exp_out = Unset
    /\ status_out = Unset
    /\ coordinator = NoInvocations
    /\ arrival = NoArrival
    /\ arrivals = 0

main_vars == <<pc, exit_code, exit_cause, config, persisted, api_token,
               session_id, now, user_input, handler, calls, flows, msg>>

CallParseJwtExpiry ==
    /\ pc = "codec"
    /\ exp_out = Unset
    /\ exp_out' = parse_jwt_expiry(token_in)
    /\ UNCHANGED <<main_vars, oauth_vars, token_in, status_out>>

CallCheckTokenStatus ==
    /\ pc = "codec"
    /\ status_out = Unset
    /\ status_out' = check_token_status(token_in, now)
    /\ UNCHANGED <<main_vars, oauth_vars, token_in, exp_out>>

NextCodec == CallParseJwtExpiry \/ CallCheckTokenStatus

SpecCodec == InitCodec /\ [][NextCodec]_vars


\* ------------------------------------------------------------------------
\* The OAuth coordinator on its own: a login and two service connects,
\* invoked independently, and the browser sending requests to their ports
\* ------------------------------------------------------------------------

FlowPort(f) ==
    IF f = "login" THEN LOGIN_CALLBACK_PORT ELSE CONNECT_CALLBACK_PORT

CallbackPorts == {LOGIN_CALLBACK_PORT, CONNECT_CALLBACK_PORT}

\* the listeners that hold a port
ListeningOn(c, port) ==
    {f \in FlowIds : FlowPort(f) = port /\ c[f].bound}

PortBound(c, port) == ListeningOn(c, port) # {}

\* the auth_token a run may be given: login takes none
AuthTokens(f) == IF f = "login" THEN {<<>>} ELSE {<<>>, TOKEN_OPAQUE}

InitOAuth ==
    /\ pc = "oauth"
    /\ exit_code = NotExited
    /\ exit_cause = "none"
    /\ config = EmptySession
    /\ persisted = EmptySession
    /\ api_token = <<>>
    /\ session_id = NoSession
    /\ now = 0
    /\ user_input = <<>>
    /\ handler = "init"
    /\ calls = <<>>
    /\ flows = <<>>
    /\ msg = "none"
    /\ token_in = <<>>
    /\ exp_out = Unset
    /\ status_out = Unset
    /\ coordinator = NoInvocations
    /\ arrival = NoArrival
    /\ arrivals = 0

\* a run that ends before any listener exists
FailFast(auth_token, message) ==
    Invocation("Returned", auth_token, FALSE, FALSE, 0, 0, EmptySlot,
               Error(message))

\* a run that binds and opens the browser whatever auth_token it was given
started_without_token_check(c, f, auth_token) ==
    IF PortBound(c, FlowPort(f))
    THEN FailFast(auth_token, BIND_ERROR)
    ELSE Invocation("Listening", auth_token, TRUE, TRUE, 0, 0, EmptySlot,
                    EmptySlot)

\* the first steps of a run, up to the blocking wait: a service connect
\* without auth_token fails at once; a port that is taken is a BindError,
\* surfaced as Error at once; otherwise the listener is bound and the
\* browser is asked to open the URL
started(c, f, auth_token) ==
    IF FlowOp(f) = "initiate_service_connect" /\ auth_token = <<>>
    THEN FailFast(auth_token, NOT_AUTHENTICATED)
    ELSE IF PortBound(c, FlowPort(f))
    THEN FailFast(auth_token, BIND_ERROR)
    ELSE Invocation("Listening", auth_token, TRUE, TRUE, 0, 0, EmptySlot,
                    EmptySlot)

\* when a run may be invoked: the second service connect comes while the
\* first is waiting
MayStart(c, f) ==
    /\ c[f].state = "Idle"
    /\ f = "connect_again" => c["connect"].state = "Listening"

StartFlow(f) ==
    /\ pc = "oauth"
    /\ MayStart(coordinator, f)
    /\ \E auth_token \in AuthTokens(f) :
         coordinator' = [coordinator EXCEPT
                            ![f] = started(coordinator, f, auth_token)]
    /\ UNCHANGED <<main_vars, codec_vars, arrival, arrivals>>

\* a listener that takes any request for its callback
received_any_path(inv, request) ==
    [inv EXCEPT !.state = "Resolved", !.bound = FALSE,
                !.slot = IF request.path = CALLBACK_PATH
                         THEN ResultOf(request.params)
                         ELSE Error("no token")]

\* what a listener does with one request: a request on the callback path
\* fills the slot and ends the wait, any other is acknowledged and ignored
received(inv, request) ==
    IF request.path = CALLBACK_PATH
    THEN [inv EXCEPT !.state = "Resolved", !.bound = FALSE,
                     !.slot = ResultOf(request.params)]
    ELSE [inv EXCEPT !.acked = inv.acked + 1]

\* a request reaches a callback port: the listener bound to it gets it, and
\* without a listener nobody does
Arrives(port, request) ==
    /\ pc = "oauth"
    /\ arrivals < MaxRequests
    /\ arrivals' = arrivals + 1
    /\ IF PortBound(coordinator, port)
       THEN /\ coordinator' =
                 [f \in FlowIds |->
                    IF f \in ListeningOn(coordinator, port)
                    THEN received(coordinator[f], request)
                    ELSE coordinator[f]]
            /\ arrival' = [port |-> port, request |-> request,
                           fate |-> "delivered"]
       ELSE /\ UNCHANGED coordinator
            /\ arrival' = [port |-> port, request |-> request,
                           fate |-> "refused"]
    /\ UNCHANGED <<main_vars, codec_vars>>

\* the timer of a listener that waits
TimerTick(f) ==
    /\ pc = "oauth"
    /\ coordinator[f].state = "Listening"
    /\ coordinator[f].elapsed < MaxWait
    /\ coordinator' = [coordinator EXCEPT
                          ![f].elapsed = coordinator[f].elapsed + 1]
    /\ UNCHANGED <<main_vars, codec_vars, arrival, arrivals>>

\* a timeout that unblocks the coordinator and leaves the port bound
timed_out_keeps_port(inv) == [inv EXCEPT !.state = "TimedOut", !.slot = Timeout]

\* the deadline passed without a callback
timed_out(inv) ==
    [inv EXCEPT !.state = "TimedOut", !.bound = FALSE, !.slot = Timeout]

TimeoutFires(f) ==
    /\ pc = "oauth"
    /\ coordinator[f].state = "Listening"
    /\ coordinator[f].elapsed >= MaxWait
    /\ coordinator' = [coordinator EXCEPT ![f] = timed_out(coordinator[f])]
    /\ UNCHANGED <<main_vars, codec_vars, arrival, arrivals>>

\* the blocking wait is over: the coordinator returns what the slot holds
returned(inv) == [inv EXCEPT !.state = "Returned", !.result = inv.slot]

Returns(f) ==
    /\ pc = "oauth"
    /\ coordinator[f].state \in {"Resolved", "TimedOut"}
    /\ coordinator' = [coordinator EXCEPT ![f] = returned(coordinator[f])]
    /\ UNCHANGED <<main_vars, codec_vars, arrival, arrivals>>

\* an OAuthResult as login() reads it: None, a dict with error, or a dict
\* with token, owner_id and email
AsCallerSees(result) ==
    IF result.kind = "Timeout" THEN Return(None)
    ELSE IF result.kind = "Error" THEN Return([error |-> result.message])
    ELSE Return([token |-> result.token, owner_id |-> result.owner_id,
                 email |-> result.email])

\* login() goes on with the result of its run
DispatchLogin ==
    /\ pc = "oauth"
    /\ coordinator["login"].state = "Returned"
    /\ login(CMD_LOGIN, AsCallerSees(coordinator["login"].result))
    /\ coordinator' = [coordinator EXCEPT !["login"].state = "Dispatched"]
    /\ UNCHANGED <<pc, exit_code, exit_cause, session_id, now, codec_vars,
                   arrival, arrivals>>

NextOAuth ==
    \/ \E f \in FlowIds : StartFlow(f)
    \/ \E port \in CallbackPorts, request \in BrowserRequests :
         Arrives(port, request)
    \/ \E f \in FlowIds : TimerTick(f)
    \/ \E f \in FlowIds : TimeoutFires(f)
    \/ \E f \in FlowIds : Returns(f)
    \/ DispatchLogin

SpecOAuth == InitOAuth /\ [][NextOAuth]_vars

\* timers run, deadlines fire and a resolved wait returns
FairOAuth ==
    \A f \in FlowIds :
        /\ WF_vars(TimerTick(f))
        /\ WF_vars(TimeoutFires(f))
        /\ WF_vars(Returns(f))

SpecOAuthFair == SpecOAuth /\ FairOAuth


\* ------------------------------------------------------------------------
\* Properties
\* ------------------------------------------------------------------------

\* isAuthenticated(): a non-empty token that check_token_status reports valid
IsAuthenticated(cfg, clock) ==
    /\ cfg.session_token # <<>>
    /\ check_token_status(cfg.session_token, clock).kind = "return"
    /\ check_token_status(cfg.session_token, clock).is_valid

\* isAuthenticated() answers false: the token is empty or locally expired
NotAuthenticated(cfg, clock) ==
    \/ cfg.session_token = <<>>
    \/ /\ check_token_status(cfg.session_token, clock).kind = "return"
       /\ ~check_token_status(cfg.session_token, clock).is_valid

\* a step of the loop that ran the handler h (the clock stands still in it)
Cycle(h) == pc = "AwaitingInput" /\ now' = now /\ handler' = h

NoChatCall(c) == \A i \in 1..Len(c) : c[i].op # "send_chat_message"

LocalAuthCommands == {CMD_LOGIN, CMD_LOGOUT, CMD_STATUS, CMD_NEW}

\* C1: a line that is no local command and no quit alias, read while
\* isAuthenticated() is false (token empty, or non-empty and locally expired),
\* gets the auth error and no call to the remote collaborator is made.
C1_UnauthenticatedLineIsRefused ==
    [][(Cycle("send") /\ NotAuthenticated(config, now))
         => (calls' = <<>> /\ msg' = "not_logged_in")]_vars

\* C2: the loop ends only on a quit alias or on end of input; no error raised
\* while a command is handled ends it.
C2_LoopEndsOnlyOnQuitOrEof ==
    (pc = "Exited" /\ handler \notin {"check_server", "startup"})
        => exit_cause \in {"quit", "eof"}

\* C3: after the remote collaborator signalled an authentication failure to a
\* sent line, the session is no longer authenticated and the loop goes on.
C3_AuthFailureInvalidatesSession ==
    [][(Cycle("send") /\ msg' = "session_expired")
         => (pc' = "AwaitingInput" /\ NotAuthenticated(config', now'))]_vars

\* C4: a line that stripped and lowercased is /login, /logout, /status or
\* /new reaches its own handler and is never sent as a chat message or a
\* forwarded command; /status and /new make no remote call at all.
C4_LocalCommandsStayLocal ==
    LET cmd == StrLower(StrStrip(user_input)) IN
    cmd \in LocalAuthCommands =>
        /\ handler = (CASE cmd = CMD_LOGIN -> "login"
                        [] cmd = CMD_LOGOUT -> "logout"
                        [] cmd = CMD_STATUS -> "status"
                        [] OTHER -> "new")
        /\ NoChatCall(calls)
        /\ cmd \in {CMD_STATUS, CMD_NEW} => calls = <<>>

\* /Status typed in mixed case while a token is held: handled by status()
C4_Witness ==
    /\ pc = "AwaitingInput"
    /\ handler = "status"
    /\ user_input # StrLower(StrStrip(user_input))
    /\ config.session_token # <<>>
    /\ calls = <<>>

\* C5: whenever the loop waits for input, the session has all three fields
\* empty or a non-empty token: never an empty token beside an owner_id or an
\* email.
C5_IdentityAllEmptyOrTokenHeld ==
    pc = "AwaitingInput" =>
        (config.session_token = <<>> => config.owner_id = "" /\ config.email = "")

\* a logout that emptied a session which had been logged in
C5_Witness ==
    /\ pc = "AwaitingInput"
    /\ handler = "logout"
    /\ config = EmptySession
    /\ api_token # <<>>

\* the OAuth flow of the last cycle handed back token, owner_id and email
LoginSucceeded(f) ==
    /\ Len(f) = 1
    /\ f[1].op = "initiate_browser_login"
    /\ f[1].outcome.kind = "return"
    /\ f[1].outcome.value # None
    /\ DOMAIN f[1].outcome.value = {"token", "owner_id", "email"}
    /\ f[1].outcome.value.token # <<>>

SessionOf(result) == Session(result.token, result.owner_id, result.email)

\* C6 as stated: after a /login whose flow succeeded the session holds the
\* three values of the result and isAuthenticated() is true.
C6_LoginAuthenticates ==
    [][(Cycle("login") /\ LoginSucceeded(flows'))
         => /\ config' = SessionOf(flows'[1].outcome.value)
            /\ IsAuthenticated(config', now')]_vars

\* C6 amended: after a /login whose flow succeeded the session holds exactly
\* the three values of the result, with a non-empty token, and check_auth
\* answers true exactly when check_token_status reports that token valid at
\* that time.
C6_LoginReplacesIdentity ==
    [][(Cycle("login") /\ LoginSucceeded(flows'))
         => /\ config' = SessionOf(flows'[1].outcome.value)
            /\ config'.session_token # <<>>
            /\ (check_auth(config', now') = Return(TRUE))
                  <=> IsAuthenticated(config', now')]_vars

\* a login that replaced another user's session and is authenticated
C6_Witness ==
    /\ pc = "AwaitingInput"
    /\ handler = "login"
    /\ LoginSucceeded(flows)
    /\ config = SessionOf(flows[1].outcome.value)
    /\ persisted = config
    /\ IsAuthenticated(config, now)

\* C7: parse_jwt_expiry gives None or an integer for every token, whatever
\* is malformed in it, and check_token_status returns for every token.
C7_ParseExpiryNoneOrInt ==
    /\ exp_out # Unset => (exp_out = None \/ exp_out.t \in {"int", "bool"})
    /\ status_out # Unset => status_out.kind = "return"

\* the expiry as a number, where it is one
ExpiryNumber(exp) ==
    IF exp.t = "int" THEN exp.v ELSE IF exp.v THEN 1 ELSE 0

\* C8: check_token_status gives (False, None) for the empty token, (True,
\* None) for a token whose expiry cannot be parsed, and otherwise
\* (exp - now > 0, exp - now).
C8_CheckValidityTable ==
    status_out # Unset =>
        IF token_in = <<>> THEN status_out = Returned(FALSE, None)
        ELSE IF parse_jwt_expiry(token_in).t \notin {"int", "bool"}
        THEN status_out = Returned(TRUE, None)
        ELSE status_out =
                 Returned(ExpiryNumber(parse_jwt_expiry(token_in)) - now > 0,
                          PyInt(ExpiryNumber(parse_jwt_expiry(token_in)) - now))

\* C9: a /connect line of any form read while isAuthenticated() is false
\* gets the auth error; no OAuth flow starts, no remote call is made, the
\* session is untouched and the loop goes on.
C9_ConnectRefusedUnauthenticated ==
    [][(Cycle("connect") /\ NotAuthenticated(config, now))
         => /\ msg' = "not_logged_in"
            /\ pc' = "AwaitingInput"
            /\ calls' = <<>>
            /\ flows' = <<>>
            /\ UNCHANGED <<config, persisted, api_token>>]_vars

\* /connect refused while a token is held that has expired
C9_Witness ==
    /\ pc = "AwaitingInput"
    /\ handler = "connect"
    /\ msg = "not_logged_in"
    /\ config.session_token # <<>>
    /\ NotAuthenticated(config, now)
    /\ calls = <<>>
    /\ flows = <<>>

\* C10: an authenticated line that is no local command and begins with / is
\* sent to the remote collaborator once, as it was typed.
C10_RemoteCommandSentVerbatim ==
    [][(/\ Cycle("send")
        /\ IsAuthenticated(config, now)
        /\ StrStartsWith(StrStrip(user_input'), <<"/">>))
         => /\ Len(calls') = 1
            /\ calls'[1].op = "send_chat_message"
            /\ calls'[1].message = user_input']_vars

\* a command typed with capitals and a trailing blank that was sent
C10_Witness ==
    /\ pc = "AwaitingInput"
    /\ handler = "send"
    /\ user_input[1] = "/"
    /\ user_input # StrLower(StrStrip(user_input))
    /\ IsAuthenticated(config, now)
    /\ Len(calls) = 1
    /\ calls[1].message = user_input


\* C11: every chat call carries the session_id of the most recent successful
\* reply since the last /new, or none when there was no such reply: a call
\* carries the current session_id, a successful reply replaces it, a failed
\* call keeps it, /new empties it without a remote call, and nothing else
\* touches it.
C11_ChatCarriesLatestSessionId ==
    [][/\ (Cycle("send") /\ calls' # <<>>) =>
            /\ Len(calls') = 1
            /\ calls'[1].session_id = session_id
            /\ session_id' = IF calls'[1].reply.kind = "return"
                             THEN calls'[1].reply.value
                             ELSE session_id
       /\ (Cycle("send") /\ calls' = <<>>) => session_id' = session_id
       /\ Cycle("new") => (session_id' = NoSession /\ calls' = <<>>)
       /\ ~(Cycle("send") \/ Cycle("new")) => session_id' = session_id]_vars

\* a call that carried the id of an earlier reply and was answered with
\* another one
C11_Witness ==
    /\ pc = "AwaitingInput"
    /\ handler = "send"
    /\ Len(calls) = 1
    /\ calls[1].session_id \in SessionIds
    /\ calls[1].reply.kind = "return"
    /\ calls[1].reply.value \in SessionIds \ {calls[1].session_id}
    /\ session_id = calls[1].reply.value


\* the session of a process that never logged in
NeverLoggedIn ==
    /\ config = EmptySession
    /\ persisted = EmptySession
    /\ api_token = <<>>

\* C12: logout is idempotent and cancels a login: the second of two
\* consecutive logouts leaves the identity empty as the first did, and a
\* logout right after a successful login leaves identity, persisted identity
\* and the token of the API client as in a process that never logged in.
C12_LogoutIdempotentCancelsLogin ==
    [][/\ (handler = "logout" /\ Cycle("logout")) =>
            (config = EmptySession /\ config' = EmptySession)
       /\ (handler = "login" /\ LoginSucceeded(flows) /\ Cycle("logout")) =>
            NeverLoggedIn']_vars

\* C13: the config file is saved after every login and logout: whenever the
\* loop waits for input after a /login or /logout cycle, the persisted
\* session_token, owner_id and email are those held in memory.
C13_PersistedAfterLoginLogout ==
    (pc = "AwaitingInput" /\ handler \in {"login", "logout"})
        => persisted = config


\* the health check of the last step did not find a healthy server
HealthCheckFailed == handler = "check_server" /\ msg # "healthy"

\* C14: when the health check at startup fails (server unreachable, or a
\* status other than healthy) the process exits with a non-zero code, and
\* nothing happens afterwards: no line is read and no command dispatched.
C14_HealthFailureExitsBeforeLoop ==
    [][/\ (pc = "main" /\ HealthCheckFailed') =>
            /\ pc' = "Exited"
            /\ exit_code' \notin {0, NotExited}
            /\ user_input' = <<>>
       /\ HealthCheckFailed => FALSE]_vars

\* the server answered, but not healthy: exit code 1
C14_Witness ==
    /\ pc = "Exited"
    /\ handler = "check_server"
    /\ msg = "unhealthy"
    /\ exit_code = 1
    /\ user_input = <<>>


\* C19: nothing is retried: the handling of one line makes at most one
\* send_chat_message call and starts at most one OAuth flow, whether the
\* call or the flow succeeds, fails or times out.
C19_NoAutomaticRetry ==
    /\ Cardinality({i \in 1..Len(calls) : calls[i].op = "send_chat_message"}) <= 1
    /\ Len(flows) <= 1

\* a service connect that timed out and was not started again
C19_Witness ==
    /\ pc = "AwaitingInput"
    /\ handler = "connect"
    /\ msg = "connect_timeout"
    /\ Len(flows) = 1
    /\ flows[1].outcome = Return(None)


\* a result that is one whole variant of OAuthResult
WholeResult(r) ==
    \/ r = Timeout
    \/ r.kind = "Error" /\ DOMAIN r = {"kind", "message"}
    \/ /\ r.kind = "Success"
       /\ DOMAIN r = {"kind", "token", "owner_id", "email"}
       /\ r.token # <<>>

\* the run f gave its result to its caller
HasReturned(f) == coordinator[f].state \in {"Returned", "Dispatched"}

C16_ListenerTakesOneCallback ==
    [][arrivals' # arrivals =>
         /\ ~PortBound(coordinator, arrival'.port) => arrival'.fate = "refused"
         /\ \A f \in FlowIds :
            IF f \in ListeningOn(coordinator, arrival'.port)
            THEN /\ arrival'.fate = "delivered"
                 /\ IF arrival'.request.path = CALLBACK_PATH
                    THEN /\ coordinator'[f].state = "Resolved"
                         /\ coordinator[f].slot = EmptySlot
                         /\ coordinator'[f].slot =
                                ResultOf(arrival'.request.params)
                         /\ ~coordinator'[f].bound
                    ELSE /\ coordinator'[f] =
                                [coordinator[f] EXCEPT
                                    !.acked = coordinator[f].acked + 1]
                         /\ coordinator'[f].state = "Listening"
            ELSE coordinator'[f] = coordinator[f]]_vars

\* a listener that acknowledged a favicon probe, resolved on its callback,
\* and kept its result when another callback came for the same port
C16_Witness ==
    \E f \in FlowIds :
        /\ coordinator[f].acked > 0
        /\ coordinator[f].slot.kind = "Success"
        /\ arrival.fate = "refused"
        /\ arrival.port = FlowPort(f)
        /\ arrival.request.path = CALLBACK_PATH
        /\ "error" \in DOMAIN arrival.request.params


\* C17: every run that binds its port resolves in the end, with Timeout
\* once the deadline has passed when no callback came; and whatever the
\* result, the port is no longer bound when the coordinator returns.
C17_BoundFlowResolvesAndReleases ==
    /\ \A f \in FlowIds :
          (coordinator[f].state = "Listening") ~> HasReturned(f)
    /\ [](\A f \in FlowIds :
             /\ HasReturned(f) => ~coordinator[f].bound
             /\ coordinator[f].slot = Timeout =>
                    coordinator[f].elapsed >= MaxWait)

\* a run that waited until its deadline, returned Timeout and gave up its
\* port
C17_Witness ==
    \E f \in FlowIds :
        /\ coordinator[f].state = "Returned"
        /\ coordinator[f].browser
        /\ coordinator[f].result = Timeout
        /\ coordinator[f].elapsed = MaxWait
        /\ ~PortBound(coordinator, FlowPort(f))

\* the service connects that were invoked without an auth_token
ConnectsWithoutToken ==
    {f \in FlowIds : /\ FlowOp(f) = "initiate_service_connect"
                     /\ coordinator[f].state # "Idle"
                     /\ coordinator[f].auth_token = <<>>}

\* C18: initiate_service_connect with an empty auth_token returns Error
\* "not authenticated" at once: no listener is started, no port bound, the
\* browser is not opened.
C18_ConnectWithoutTokenFailsFast ==
    \A f \in ConnectsWithoutToken :
        /\ coordinator[f].state = "Returned"
        /\ coordinator[f].result = Error(NOT_AUTHENTICATED)
        /\ ~coordinator[f].bound
        /\ ~coordinator[f].browser
        /\ coordinator[f].slot = EmptySlot
        /\ coordinator[f].acked = 0

\* a service connect without token that failed while its port was free and
\* a request came for it
C18_Witness ==
    /\ "connect" \in ConnectsWithoutToken
    /\ coordinator["connect"].result = Error(NOT_AUTHENTICATED)
    /\ coordinator["connect_again"].state = "Idle"
    /\ arrival.port = CONNECT_CALLBACK_PORT
    /\ arrival.fate = "refused"

\* the step started the run f
Starts(f) == coordinator[f].state = "Idle" /\ coordinator'[f].state # "Idle"

\* C20: runs on different ports share nothing: a step changes one run at
\* most, a slot is filled from a request that came to the port of its own
\* listener, login and service connect never find their port taken by each
\* other, and a run started on a port that a listener still holds returns
\* Error BindError at once and leaves that listener as it was.
C20_FlowsAreIndependent ==
    [][/\ \A f, g \in FlowIds :
            (f # g /\ coordinator'[f] # coordinator[f]) =>
                coordinator'[g] = coordinator[g]
       /\ \A f \in FlowIds :
            (coordinator[f].slot = EmptySlot
               /\ coordinator'[f].slot \notin {EmptySlot, Timeout}) =>
                /\ arrivals' # arrivals
                /\ arrival'.port = FlowPort(f)
                /\ coordinator'[f].slot = ResultOf(arrival'.request.params)
       /\ \A f \in FlowIds :
            (Starts(f) /\ coordinator'[f].result = Error(BIND_ERROR)) =>
                /\ PortBound(coordinator, FlowPort(f))
                /\ coordinator'[f].state = "Returned"
                /\ ~coordinator'[f].bound
       /\ \A f \in FlowIds :
            (Starts(f) /\ PortBound(coordinator, FlowPort(f))
               /\ coordinator'[f].auth_token # <<>>) =>
                coordinator'[f].result = Error(BIND_ERROR)
       /\ \A f \in {"login", "connect"} :
            (Starts(f) /\ ~coordinator["connect_again"].bound) =>
                coordinator'[f].result # Error(BIND_ERROR)]_vars

\* login and service connect waiting at the same time, login resolved by
\* its own callback while the connect still waits, and a second connect
\* turned away from the port of the first
C20_Witness ==
    /\ coordinator["login"].slot.kind = "Success"
    /\ coordinator["connect"].state = "Listening"
    /\ coordinator["connect"].elapsed > 0
    /\ coordinator["connect"].slot = EmptySlot
    /\ coordinator["connect_again"].result = Error(BIND_ERROR)
    /\ arrival.port = LOGIN_CALLBACK_PORT


\* a step of the loop that read a line
ReadsLine == pc = "AwaitingInput" /\ now' = now /\ handler' # "eof"

QuitAliases == {CMD_QUIT, CMD_EXIT, CMD_Q}

\* C21: a line that is /quit, /exit or /q, whatever its case and the blanks
\* around it, ends the loop in every session state, with no remote call and
\* the session as it was; no other line ends the loop.
C21_OnlyQuitAliasExits ==
    [][ReadsLine =>
         IF StrLower(StrStrip(user_input')) \in QuitAliases
         THEN /\ pc' = "Exited"
              /\ calls' = <<>>
              /\ flows' = <<>>
              /\ config' = config
         ELSE pc' = "AwaitingInput"]_vars

\* C22: a line of nothing but whitespace is a cycle without effect: the loop
\* waits for input again, no remote call, no OAuth flow, and the session,
\* the config file and the session_id are as before.
C22_BlankLineIsNoOp ==
    [][(ReadsLine /\ \A i \in 1..Len(user_input') :
                        user_input'[i] \in {" ", "\t"}) =>
         /\ pc' = "AwaitingInput"
         /\ calls' = <<>>
         /\ flows' = <<>>
         /\ UNCHANGED <<config, persisted, api_token, session_id>>]_vars

\* a line of blanks and a tab read while logged in with a conversation open
C22_Witness ==
    /\ pc = "AwaitingInput"
    /\ handler = "blank"
    /\ Len(user_input) > 0
    /\ \E i \in 1..Len(user_input) : user_input[i] = "\t"
    /\ config.session_token # <<>>
    /\ session_id \in SessionIds
    /\ calls = <<>>

\* the step is the status display at the start of chat()
StartupStatus == pc = "chat" /\ handler' = "startup"

\* C23: the startup status decides the validity of the stored token locally:
\* with an empty or locally expired token it makes no remote call, and the
\* service status calls are made only with a token that is non-empty and
\* not locally expired.
C23_StartupChecksTokenLocally ==
    [][StartupStatus =>
         /\ NotAuthenticated(config, now) => calls' = <<>>
         /\ calls' # <<>> => IsAuthenticated(config, now)]_vars

\* started with a stored token that had expired: no remote call
C23_Witness ==
    /\ pc = "AwaitingInput"
    /\ handler = "startup"
    /\ msg = "session_expired"
    /\ config.session_token # <<>>
    /\ NotAuthenticated(config, now)
    /\ calls = <<>>


\* C24: whenever the loop waits for input, the token the API client will
\* present on its next call is the token of the session; after /logout the
\* client holds the old token no longer.
C24_ClientTokenIsSessionToken ==
    pc = "AwaitingInput" => api_token = config.session_token

\* C25: /logout always ends with the empty session, in memory and in the
\* config file, whatever the remote logout call did, and the loop waits for
\* input again.
C25_LogoutAlwaysClearsAndPersists ==
    [][Cycle("logout") =>
         /\ config' = EmptySession
         /\ persisted' = EmptySession
         /\ pc' = "AwaitingInput"]_vars

\* the OAuth flow of the step gave no token: a timeout, an error, or a
\* result whose token is missing or empty
LoginGaveNoToken(f) ==
    /\ Len(f) = 1
    /\ f[1].outcome.kind = "return"
    /\ \/ f[1].outcome.value = None
       \/ "error" \in DOMAIN f[1].outcome.value
       \/ "token" \notin DOMAIN f[1].outcome.value
       \/ f[1].outcome.value.token = <<>>

\* C26: a /login whose flow ends in Timeout, in Error, or in a result with
\* an empty or missing token leaves the session, the config file and the
\* token of the API client as they were.
C26_FailedLoginChangesNothing ==
    [][(Cycle("login") /\ LoginGaveNoToken(flows')) =>
         /\ UNCHANGED <<config, persisted, api_token>>
         /\ pc' = "AwaitingInput"]_vars

\* a login that came back with an empty token while a user was logged in,
\* who stays logged in
C26_Witness ==
    /\ pc = "AwaitingInput"
    /\ handler = "login"
    /\ msg = "no_token"
    /\ flows[1].outcome.value # None
    /\ "token" \in DOMAIN flows[1].outcome.value
    /\ config.session_token # <<>>
    /\ config.owner_id = "u1"
    /\ persisted = config
    /\ api_token = config.session_token

\* the OAuth flow of the step gave a token
LoginGaveToken(f) ==
    /\ Len(f) = 1
    /\ f[1].outcome.kind = "return"
    /\ f[1].outcome.value # None
    /\ "error" \notin DOMAIN f[1].outcome.value
    /\ "token" \in DOMAIN f[1].outcome.value
    /\ f[1].outcome.value.token # <<>>

\* C27: the session identity changes only in a /login cycle whose flow gave
\* a token and in a /logout cycle: /status, /new, /connect in all its forms,
\* a forwarded command and a chat message leave token, owner_id and email
\* as they were, whatever the remote side answers.
C27_IdentityChangesOnlyOnLoginLogout ==
    [][config' # config =>
         \/ Cycle("login") /\ LoginGaveToken(flows')
         \/ Cycle("logout")]_vars

\* a service connect that returned the email of the connected account and
\* left the email of the session alone
C27_Witness ==
    /\ pc = "AwaitingInput"
    /\ handler = "connect"
    /\ msg = "connected"
    /\ Len(flows) = 1
    /\ "email" \in DOMAIN flows[1].outcome.value
    /\ config.email # flows[1].outcome.value.email
    /\ persisted = config

\* C28: the session_id changes only by /new and by a successful reply to a
\* sent line: /login, /logout, /status, /connect, a blank line, a line
\* refused for lack of a token and a call that fails leave it, so the id
\* obtained before a /logout is still there after it.
C28_SessionIdChangesOnlyOnNewOrReply ==
    [][session_id' # session_id =>
         \/ Cycle("new")
         \/ /\ Cycle("send")
            /\ Len(calls') = 1
            /\ calls'[1].reply.kind = "return"]_vars

\* logged out with a conversation open: the session_id is kept
C28_Witness ==
    /\ pc = "AwaitingInput"
    /\ handler = "logout"
    /\ config = EmptySession
    /\ session_id \in SessionIds

====
